---- MODULE Spec2Model ----
(***************************************************************************)
(* Backupist: the backup execution pipeline (Service.ExecuteBackup), the   *)
(* SQLite catalog, the storage backends and the retention engine.          *)
(*                                                                         *)
(* An artifact path is the pair <<policy id, second>>: generateRemotePath  *)
(* joins the policy's destination with generateBackupName, which is the    *)
(* policy name followed by a timestamp of one-second resolution.  The      *)
(* empty tuple stands for the empty string.                                *)
(***************************************************************************)
EXTENDS Integers, Sequences, FiniteSets, TLC

\* ------------------------------------------------------------------ bounds
MaxTime == 2
MaxJobs == 3
MaxFileRows == 2

\* ------------------------------------------------------- program constants
HistoryLimit == 1000

PolicyIds == {"p1", "p2"}
JobIds == 1..MaxJobs
FileRowIds == 1..MaxFileRows
Times == 0..MaxTime
Backends == {"local", "s3", "gcs"}

JobStatusPending == "pending"
JobStatusRunning == "running"
JobStatusCompleted == "completed"
JobStatusFailed == "failed"
JobStatusCancelled == "cancelled"
JobStatusDeleted == "deleted"

NoPath == <<>>
RemotePath(pid, t) == <<pid, t>>

VARIABLES
    now,        \* wall clock in seconds (time.Now, CURRENT_TIMESTAMP)
    backend,    \* Service.storage: which StorageProvider initStorage built;
                \* for a MultiStorage the tuple of its members' kinds, and
                \* storage and partial then hold pairs <<member, path>>
    policies,   \* table backup_policies: id -> row
    jobs,       \* table backup_jobs: id -> row
    results,    \* table backup_results: set of job ids (row id is result_<job id>)
    files,      \* table backup_files: row id -> job id
    storage,    \* object paths present in the storage backend
    partial,    \* object paths whose content is a truncated (partly written) copy
    memJobs,    \* the caller's *types.BackupJob objects: id -> object
    run,        \* the activation of ExecuteBackup / performBackup
    tempDirs,   \* working directories backup-* present under os.TempDir()
    cancelled,  \* ctx.Done() is closed
    ret         \* what the last operation returned

vars == <<now, backend, policies, jobs, results, files, storage, partial,
          memJobs, run, tempDirs, cancelled, ret>>

catalogVars == <<policies, jobs, results, files>>
pipelineVars == <<memJobs, run, tempDirs>>

\* ----------------------------------------------------------------- helpers
Min(a, b) == IF a < b THEN a ELSE b

Put(f, k, v) == [x \in (DOMAIN f) \cup {k} |-> IF x = k THEN v ELSE f[x]]
Drop(f, ks) == [x \in (DOMAIN f) \ ks |-> f[x]]

\* performBackup's locals: the policy read by getPolicy, tempDir (named after
\* the job), backupPath (which file of tempDir it names), backupName's stamp
IdleRun == [pc |-> "idle", job |-> 0, policy |-> "", retention |-> 0,
            archive |-> FALSE, encrypt |-> FALSE, path |-> "copy",
            stamp |-> 0, cancelAt |-> "none"]

\* op: the operation that returned; ok: it returned no error; phase: where
\* performBackup returned; result: the BackupPath of the result it returned; cancelAt: the step about to begin when ctx was
\* cancelled; err, fault, todo, failed: what cleanupOldBackups did
Ret(op, ok) == [op |-> op, ok |-> ok, job |-> 0, policy |-> "", phase |-> "none",
                result |-> NoPath,
                cancelAt |-> "none", err |-> FALSE, fault |-> FALSE,
                todo |-> <<>>, failed |-> {}]

\* The catalog as one value, for the statements of a transaction.
Catalog == [policies |-> policies, jobs |-> jobs, results |-> results, files |-> files]

\* --------------------------------------------------------- storage backend
\* LocalStorage.Exists / S3Storage.Exists / GCSStorage.Exists
StorageExists(store, path) == path \in store

\* os.Remove, minio RemoveObject, ObjectHandle.Delete on an object:
\* does the call return an error when no fault is injected?
DeleteErrsWhenAbsent(b) == b \in {"local", "gcs"}

StorageDeleteFails(b, store, path) == path \notin store /\ DeleteErrsWhenAbsent(b)

StorageDelete(store, path) == store \ {path}

\* ------------------------------------------------------------------ catalog
JobsOfPolicy(jt, pid) == {j \in DOMAIN jt : jt[j].policy_id = pid}

\* sequences over S without repetition, newest created_at first
DescOrders(jt, S) ==
    {s \in [1..Cardinality(S) -> S] :
        /\ \A i, k \in 1..Cardinality(S) : i # k => s[i] # s[k]
        /\ \A i, k \in 1..Cardinality(S) :
               i < k => jt[s[i]].created_at >= jt[s[k]].created_at}

Take(s, n) == SubSeq(s, 1, Min(n, Len(s)))

\* getBackupHistory: SELECT ... WHERE policy_id = ? ORDER BY created_at DESC LIMIT ?
\* (rows with equal created_at come in any order)
getBackupHistory(jt, pid, limit) ==
    {Take(s, limit) : s \in DescOrders(jt, JobsOfPolicy(jt, pid))}

Range(s) == {s[i] : i \in DOMAIN s}

\* deletePolicy, the statements of the transaction in order
DeletePolicyFiles(d, pid) ==
    [d EXCEPT !.files = Drop(d.files, {f \in DOMAIN d.files : d.files[f] \in JobsOfPolicy(d.jobs, pid)})]
DeletePolicyResults(d, pid) ==
    [d EXCEPT !.results = d.results \ JobsOfPolicy(d.jobs, pid)]
DeletePolicyJobs(d, pid) ==
    [d EXCEPT !.jobs = Drop(d.jobs, JobsOfPolicy(d.jobs, pid))]
DeletePolicyRow(d, pid) ==
    [d EXCEPT !.policies = Drop(d.policies, {pid})]

RollbackKeepsWork(before, work) == work

\* tx.Rollback(): the catalog is what it was before BeginTx
Rollback(before, work) == before

\* deletePolicy.  failAt = 0: every step succeeds; failAt = k > 0: step k of
\* BeginTx, DELETE backup_files, DELETE backup_results, DELETE backup_jobs,
\* DELETE backup_policies, Commit fails and the deferred Rollback runs.
deletePolicyWork(d, pid, n) ==
    LET w1 == IF n >= 1 THEN DeletePolicyFiles(d, pid) ELSE d
        w2 == IF n >= 2 THEN DeletePolicyResults(w1, pid) ELSE w1
        w3 == IF n >= 3 THEN DeletePolicyJobs(w2, pid) ELSE w2
        w4 == IF n >= 4 THEN DeletePolicyRow(w3, pid) ELSE w3
    IN w4
deletePolicy(d, pid, failAt) ==
    IF failAt = 0 THEN deletePolicyWork(d, pid, 4)
    ELSE Rollback(d, deletePolicyWork(d, pid, IF failAt >= 2 THEN failAt - 2 ELSE 0))

\* ---------------------------------------------------------------- retention
\* deleteBackup, the statements of its transaction
DeleteBackupWork(d, j, n) ==
    LET w1 == IF n >= 1
              THEN [d EXCEPT !.files = Drop(d.files, {f \in DOMAIN d.files : d.files[f] = j})]
              ELSE d
        w2 == IF n >= 2 THEN [w1 EXCEPT !.results = w1.results \ {j}] ELSE w1
        w3 == IF n >= 3 /\ j \in DOMAIN w2.jobs
              THEN [w2 EXCEPT !.jobs[j].status = JobStatusDeleted]
              ELSE w2
    IN w3

\* deleteBackup(backup) on st = [storage, cat].  failAt = 0: no injected fault;
\* 1: storage.Delete fails; 2: BeginTx fails; 3..5: a statement fails;
\* 6: Commit fails.  storage.Delete runs before the transaction begins.
DeleteBackupSteps == 6
deleteBackup(b, st, j, path, failAt) ==
    IF failAt = 1 \/ StorageDeleteFails(b, st.storage, path)
    THEN [storage |-> st.storage, cat |-> st.cat, ok |-> FALSE]
    ELSE IF failAt = 0
         THEN [storage |-> StorageDelete(st.storage, path),
               cat |-> DeleteBackupWork(st.cat, j, 3), ok |-> TRUE]
         ELSE [storage |-> StorageDelete(st.storage, path),
               cat |-> Rollback(st.cat, DeleteBackupWork(st.cat, j, failAt - 2)),
               ok |-> FALSE]

RECURSIVE deleteUntilFailure(_, _, _, _, _)
deleteUntilFailure(b, st, snap, todo, failAt) ==
    IF todo = <<>> THEN st
    ELSE LET j == Head(todo)
             r == deleteBackup(b, st, j, snap[j].backup_path, failAt[j])
         IN IF r.ok
            THEN deleteUntilFailure(b, [storage |-> r.storage, cat |-> r.cat, failed |-> st.failed],
                                    snap, Tail(todo), failAt)
            ELSE [storage |-> r.storage, cat |-> r.cat, failed |-> st.failed \cup {j}]

deleteFirstOnly(b, st, snap, todo, failAt) ==
    IF todo = <<>> THEN st
    ELSE LET j == Head(todo)
             r == deleteBackup(b, st, j, snap[j].backup_path, failAt[j])
         IN [storage |-> r.storage, cat |-> r.cat,
             failed |-> IF r.ok THEN st.failed ELSE st.failed \cup {j}]

\* the loop `for _, backup := range backupsToDelete`: an error is logged and
\* the loop continues.  snap is the job table as read by getBackupHistory.
RECURSIVE deleteAll(_, _, _, _, _)
deleteAll(b, st, snap, todo, failAt) ==
    IF todo = <<>> THEN st
    ELSE LET j == Head(todo)
             r == deleteBackup(b, st, j, snap[j].backup_path, failAt[j])
         IN deleteAll(b, [storage |-> r.storage, cat |-> r.cat,
                          failed |-> IF r.ok THEN st.failed ELSE st.failed \cup {j}],
                      snap, Tail(todo), failAt)

\* getBackupsForPolicy: completed rows with a non-empty path whose artifact
\* Exists; a row whose Exists call errs (existsErr) is skipped.
IsSuccessful(row) == row.status = JobStatusCompleted /\ row.backup_path # NoPath
verifiedBackups(jt, store, H, existsErr) ==
    {j \in H : /\ IsSuccessful(jt[j])
               /\ j \notin existsErr
               /\ StorageExists(store, jt[j].backup_path)}

\* the sets of rows getBackupHistory can return (LIMIT cuts the newest first)
historySets(jt, pid) ==
    IF Cardinality(JobsOfPolicy(jt, pid)) <= HistoryLimit
    THEN {JobsOfPolicy(jt, pid)}
    ELSE {Range(h) : h \in getBackupHistory(jt, pid, HistoryLimit)}

\* where an injected fault makes deleteBackup fail: nowhere, in storage.Delete,
\* in BeginTx, in Commit (a failing statement rolls back like a failing Commit)
FaultPoints == {0, 1, DeleteBackupSteps}

CleanupResult(st, err, fault, todo) ==
    [storage |-> st.storage, cat |-> st.cat, err |-> err, fault |-> fault,
     todo |-> todo, failed |-> st.failed]

IsUnlimitedNegativeOnly(retention) == retention < 0

\* `if policy.RetentionCount <= 0`: unlimited retention, the cleanup is skipped
IsUnlimited(retention) == retention <= 0

\* the rows cleanupOldBackups keeps: the first retention rows of the sort
KeepCount(retention) == retention

\* cleanupOldBackups(policy): every state it can return in, one per choice of
\* row order among equal created_at (sort.Slice is not stable) and of faults.
\*   err with no change: getBackupHistory failed (it always does once ctx is
\*   cancelled: QueryContext returns ctx.Err());
\*   existsErr: rows whose Exists call errs; failAt: per deleted row.
\* st = [storage, cat, failed]; failed collects the rows whose deleteBackup
\* returned an error, todo is backupsToDelete, fault tells an injected fault.
cleanupOldBackups(b, st, pid, retention, ctxDone) ==
    IF IsUnlimited(retention)
    THEN {CleanupResult(st, FALSE, FALSE, <<>>)}
    ELSE IF ctxDone
    THEN {CleanupResult(st, TRUE, TRUE, <<>>)}
    ELSE {CleanupResult(st, TRUE, TRUE, <<>>)}
         \cup
         UNION { UNION {
             LET V == verifiedBackups(st.cat.jobs, st.storage, H, existsErr) IN
             IF Cardinality(V) <= retention
             THEN {CleanupResult(st, FALSE, existsErr # {}, <<>>)}
             ELSE UNION {
                    LET todo == SubSeq(ord, KeepCount(retention) + 1, Len(ord)) IN
                    { CleanupResult(deleteAll(b, st, st.cat.jobs, todo, failAt), FALSE,
                                    existsErr # {} \/ \E j \in Range(todo) : failAt[j] # 0,
                                    todo)
                      : failAt \in [Range(todo) -> FaultPoints] }
                    : ord \in DescOrders(st.cat.jobs, V) }
             : existsErr \in SUBSET {j \in H : IsSuccessful(st.cat.jobs[j])} }
           : H \in historySets(st.cat.jobs, pid) }

\* every order in which a query without ORDER BY can return the rows S
Orders(S) ==
    {s \in [1..Cardinality(S) -> S] : \A i, k \in 1..Cardinality(S) : i # k => s[i] # s[k]}

\* backup.CreatedAt.Before(cutoffTime), cutoffTime = time.Now().Add(-maxAge)
IsOlderThan(row, t, maxAge) == row.created_at < t - maxAge

\* applyAgeBasedRetention(policy, maxAge) at time t: every state it can return
\* in.  backupsToDelete keeps the order of getBackupsForPolicy.
applyAgeBasedRetention(b, st, pid, maxAge, t, ctxDone) ==
    IF maxAge <= 0
    THEN {CleanupResult(st, FALSE, FALSE, <<>>)}
    ELSE IF ctxDone
    THEN {CleanupResult(st, TRUE, TRUE, <<>>)}
    ELSE {CleanupResult(st, TRUE, TRUE, <<>>)}
         \cup
         UNION { UNION { UNION {
             LET old(j) == IsOlderThan(st.cat.jobs[j], t, maxAge)
                 todo == SelectSeq(ord, old)
             IN { CleanupResult(deleteAll(b, st, st.cat.jobs, todo, failAt), FALSE,
                                existsErr # {} \/ \E j \in Range(todo) : failAt[j] # 0, todo)
                  : failAt \in [Range(todo) -> FaultPoints] }
             : ord \in DescOrders(st.cat.jobs,
                                  verifiedBackups(st.cat.jobs, st.storage, H, existsErr)) }
             : existsErr \in SUBSET {j \in H : IsSuccessful(st.cat.jobs[j])} }
           : H \in historySets(st.cat.jobs, pid) }

\* cleanupOrphanedBackups: the completed rows whose policy row is missing
\* (LEFT JOIN ... WHERE p.id IS NULL AND j.status = 'completed')
OrphanedBackups(d) ==
    {j \in DOMAIN d.jobs : /\ d.jobs[j].policy_id \notin DOMAIN d.policies
                           /\ d.jobs[j].status = JobStatusCompleted}

cleanupOrphanedBackups(b, st, ctxDone) ==
    IF ctxDone
    THEN {CleanupResult(st, TRUE, TRUE, <<>>)}
    ELSE {CleanupResult(st, TRUE, TRUE, <<>>)}
         \cup
         UNION {
             { CleanupResult(deleteAll(b, st, st.cat.jobs, todo, failAt), FALSE,
                             \E j \in Range(todo) : failAt[j] # 0, todo)
               : failAt \in [Range(todo) -> FaultPoints] }
             : todo \in Orders(OrphanedBackups(st.cat)) }

\* cleanupFailedBackups, one row: DELETE FROM backup_jobs WHERE id = ?, then
\* storage.Delete of a non-empty path, whose error is only logged.
\* failAt 0: no injected fault; 1: the DELETE fails; 2: storage.Delete fails.
deleteFailedBackup(b, st, j, path, failAt) ==
    IF failAt = 1
    THEN [storage |-> st.storage, cat |-> st.cat, failed |-> st.failed \cup {j}]
    ELSE [storage |-> IF path = NoPath \/ failAt = 2 \/ StorageDeleteFails(b, st.storage, path)
                      THEN st.storage ELSE StorageDelete(st.storage, path),
          cat |-> [st.cat EXCEPT !.jobs = Drop(st.cat.jobs, {j})],
          failed |-> st.failed]

RECURSIVE deleteAllFailed(_, _, _, _, _)
deleteAllFailed(b, st, snap, todo, failAt) ==
    IF todo = <<>> THEN st
    ELSE deleteAllFailed(b, deleteFailedBackup(b, st, Head(todo), snap[Head(todo)].backup_path,
                                               failAt[Head(todo)]),
                         snap, Tail(todo), failAt)

\* WHERE status = 'failed' AND created_at < ?  (cutoffTime = now - olderThan)
FailedBackups(d, t, olderThan) ==
    {j \in DOMAIN d.jobs : /\ d.jobs[j].status = JobStatusFailed
                           /\ IsOlderThan(d.jobs[j], t, olderThan)}

cleanupFailedBackups(b, st, olderThan, t, ctxDone) ==
    IF ctxDone
    THEN {CleanupResult(st, TRUE, TRUE, <<>>)}
    ELSE {CleanupResult(st, TRUE, TRUE, <<>>)}
         \cup
         UNION {
             { CleanupResult(deleteAllFailed(b, st, st.cat.jobs, todo, failAt), FALSE,
                             \E j \in Range(todo) : failAt[j] # 0, todo)
               : failAt \in [Range(todo) -> {0, 1, 2}] }
             : todo \in Orders(FailedBackups(st.cat, t, olderThan)) }

\* ------------------------------------------------------------------ actions
Tick ==
    /\ now < MaxTime
    /\ now' = now + 1
    /\ ret' = Ret("none", TRUE)
    /\ UNCHANGED <<backend, catalogVars, storage, partial, pipelineVars, cancelled>>

\* savePolicy: INSERT OR REPLACE INTO backup_policies
PolicyRow(k, a, e) == [retention_count |-> k, archive_enabled |-> a, encryption_enabled |-> e]

SavePolicy(pid, row, fail) ==
    /\ policies' = IF fail THEN policies ELSE Put(policies, pid, row)
    /\ ret' = Ret("none", TRUE)
    /\ UNCHANGED <<now, backend, jobs, results, files, storage, partial, pipelineVars, cancelled>>

\* saveBackupJob: INSERT OR REPLACE INTO backup_jobs; created_at is not in the
\* column list, so the row gets DEFAULT CURRENT_TIMESTAMP.
JobRow(pid, st, path, t) == [policy_id |-> pid, status |-> st, backup_path |-> path, created_at |-> t]

SaveBackupJob(j, pid, st, path, fail) ==
    /\ jobs' = IF fail THEN jobs ELSE Put(jobs, j, JobRow(pid, st, path, now))
    /\ ret' = Ret("none", TRUE)
    /\ UNCHANGED <<now, backend, policies, results, files, storage, partial, pipelineVars, cancelled>>

\* LocalStorage.Upload / S3Storage.Upload / GCSStorage.Upload of a readable file
\*   fault "none": the object is written; "early": nothing is written;
\*   "midway" (local only): os.Create truncated the target and io.Copy failed.
UploadFaults == {"none", "early", "midway"}
Upload(b, st, path, fault) ==
    CASE fault = "none" -> [storage |-> st.storage \cup {path}, partial |-> st.partial \ {path}, ok |-> TRUE]
      [] fault = "midway" /\ b = "local" ->
            [storage |-> st.storage \cup {path}, partial |-> st.partial \cup {path}, ok |-> FALSE]
      [] OTHER -> [storage |-> st.storage, partial |-> st.partial, ok |-> FALSE]

StorageUpload(path, fault) ==
    /\ LET r == Upload(backend, [storage |-> storage, partial |-> partial], path, fault) IN
          /\ storage' = r.storage
          /\ partial' = r.partial
          /\ ret' = Ret("none", TRUE)
    /\ UNCHANGED <<now, backend, catalogVars, pipelineVars, cancelled>>

\* applyRetentionPolicies: cleanupOldBackups for a policy row of the catalog
CleanupOldBackups(pid) ==
    /\ pid \in DOMAIN policies
    /\ \E r \in cleanupOldBackups(backend, [storage |-> storage, cat |-> Catalog, failed |-> {}],
                                  pid, policies[pid].retention_count, cancelled) :
          /\ storage' = r.storage
          /\ partial' = partial \cap r.storage
          /\ policies' = r.cat.policies
          /\ jobs' = r.cat.jobs
          /\ results' = r.cat.results
          /\ files' = r.cat.files
          /\ ret' = [Ret("cleanupOldBackups", ~r.err) EXCEPT
                        !.policy = pid, !.err = r.err, !.fault = r.fault,
                        !.todo = r.todo, !.failed = r.failed]
    /\ UNCHANGED <<now, backend, pipelineVars, cancelled>>

\* ------------------------------------------------- the retention engine alone
RetentionInputs == {1, 2}

InitEmpty ==
    /\ now = 0
    /\ backend \in Backends
    /\ policies = <<>>
    /\ jobs = <<>>
    /\ results = {}
    /\ files = <<>>
    /\ storage = {}
    /\ partial = {}
    /\ memJobs = <<>>
    /\ run = IdleRun
    /\ tempDirs = <<>>
    /\ cancelled = FALSE
    /\ ret = Ret("none", TRUE)

NextJobId == Cardinality(DOMAIN jobs) + 1

JobInputs(pid) ==
    {[status |-> JobStatusCompleted, path |-> NoPath]}
    \cup {[status |-> JobStatusCompleted, path |-> RemotePath(pid, t)] : t \in {now - 1, now} \cap Times}

NextRetention ==
    \/ Tick
    \/ \E pid \in {"p1"} : \E in \in JobInputs(pid) :
          NextJobId \in JobIds /\ SaveBackupJob(NextJobId, pid, in.status, in.path, FALSE)
    \/ StorageUpload(RemotePath("p1", now), "none")
    \/ \E pid \in PolicyIds : CleanupOldBackups(pid)

InitRetention ==
    /\ now = 0
    /\ backend = "local"
    /\ \E k \in RetentionInputs : policies = [p \in {"p1"} |-> PolicyRow(k, TRUE, FALSE)]
    /\ jobs = <<>>
    /\ results = {}
    /\ files = <<>>
    /\ storage = {}
    /\ partial = {}
    /\ memJobs = <<>>
    /\ run = IdleRun
    /\ tempDirs = <<>>
    /\ cancelled = FALSE
    /\ ret = Ret("none", TRUE)

SpecRetention == InitRetention /\ [][NextRetention]_vars

\* ------------------------------------------- the four retention operations
MaxRows == 2
CleanupRetentionInputs == {-1, 0, 1}
AgeInputs == {0, 1}

\* what a retention operation returned: job holds the numeric argument of the
\* call (RetentionCount, maxAge, olderThan), todo the rows it selected for
\* deletion, failed those whose deletion returned an error, and phase tells a
\* run that follows a run of the same operation
CleanupRet(op, pid, arg, r) ==
    [Ret(op, ~r.err) EXCEPT !.policy = pid, !.job = arg, !.err = r.err, !.fault = r.fault,
                            !.todo = r.todo, !.failed = r.failed,
                            !.phase = IF ret.op = op THEN "again" ELSE "first"]

ApplyCleanup(r) ==
    /\ storage' = r.storage
    /\ partial' = partial \cap r.storage
    /\ policies' = r.cat.policies
    /\ jobs' = r.cat.jobs
    /\ results' = r.cat.results
    /\ files' = r.cat.files
    /\ UNCHANGED <<now, backend, pipelineVars, cancelled>>

RetentionState == [storage |-> storage, cat |-> Catalog, failed |-> {}]

\* cleanupOldBackups(ctx, policy) for a policy value whose RetentionCount is k
CleanupOldBackupsWith(pid, k) ==
    \E r \in cleanupOldBackups(backend, RetentionState, pid, k, cancelled) :
       ApplyCleanup(r)
       /\ ret' = CleanupRet("cleanupOldBackups", pid, k, r)

ApplyAgeBasedRetention(pid, maxAge) ==
    /\ pid \in DOMAIN policies
    /\ \E r \in applyAgeBasedRetention(backend, RetentionState, pid, maxAge, now, cancelled) :
          ApplyCleanup(r)
          /\ ret' = CleanupRet("applyAgeBasedRetention", pid, maxAge, r)

CleanupOrphanedBackups ==
    \E r \in cleanupOrphanedBackups(backend, RetentionState, cancelled) :
       ApplyCleanup(r) /\ ret' = CleanupRet("cleanupOrphanedBackups", "", 0, r)

CleanupFailedBackups(olderThan) ==
    \E r \in cleanupFailedBackups(backend, RetentionState, olderThan, now, cancelled) :
       ApplyCleanup(r)
       /\ ret' = CleanupRet("cleanupFailedBackups", "", olderThan, r)

\* the rows finished runs leave in backup_jobs: a completed run of p1 named
\* after this second or the one before, a completed run of p2 (which has no
\* policy row), a failed run that got as far as naming its artifact
CleanupJobInputs ==
    {[pid |-> "p1", status |-> JobStatusCompleted, path |-> RemotePath("p1", t)]
        : t \in {now - 1, now} \cap Times}
    \cup {[pid |-> "p2", status |-> JobStatusCompleted, path |-> RemotePath("p2", now)],
          [pid |-> "p1", status |-> JobStatusFailed, path |-> RemotePath("p1", now)]}

\* a finished run: the artifact of a completed run was uploaded (Upload) before
\* its row is written (saveBackupJob)
RecordBackup(j, pid, st, path) ==
    /\ storage' = IF st = JobStatusCompleted
                  THEN Upload(backend, [storage |-> storage, partial |-> partial],
                              path, "none").storage
                  ELSE storage
    /\ jobs' = Put(jobs, j, JobRow(pid, st, path, now))
    /\ ret' = Ret("none", TRUE)
    /\ UNCHANGED <<now, backend, policies, results, files, partial, pipelineVars, cancelled>>

\* Delete of GCSStorage fails on an absent object as LocalStorage.Delete does
CleanupBackends == {"local", "s3"}

InitCleanup ==
    /\ now = 0
    /\ backend \in CleanupBackends
    /\ policies = [p \in {"p1"} |-> PolicyRow(1, TRUE, FALSE)]
    /\ jobs = <<>>
    /\ results = {}
    /\ files = <<>>
    /\ storage = {}
    /\ partial = {}
    /\ memJobs = <<>>
    /\ run = IdleRun
    /\ tempDirs = <<>>
    /\ cancelled = FALSE
    /\ ret = Ret("none", TRUE)

\* the backups are recorded first; the retention operations run afterwards,
\* one after the other, with no new backup and no tick of the clock in between
Recording == ret.op = "none"

\* an operation runs first or right after a run of the same operation
Repeats(op) == ret.op \in {"none", op}

NextCleanupRow == Cardinality(DOMAIN jobs) + 1

NextCleanup ==
    \/ Recording /\ Tick
    \/ \E in \in CleanupJobInputs :
          /\ Recording
          /\ NextCleanupRow \in 1..MaxRows
          /\ RecordBackup(NextCleanupRow, in.pid, in.status, in.path)
    \/ \E k \in CleanupRetentionInputs :
          Repeats("cleanupOldBackups") /\ CleanupOldBackupsWith("p1", k)
    \/ \E maxAge \in AgeInputs :
          Repeats("applyAgeBasedRetention") /\ ApplyAgeBasedRetention("p1", maxAge)
    \/ Repeats("cleanupOrphanedBackups") /\ CleanupOrphanedBackups
    \/ \E olderThan \in AgeInputs :
          Repeats("cleanupFailedBackups") /\ CleanupFailedBackups(olderThan)

SpecCleanup == InitCleanup /\ [][NextCleanup]_vars

\* ------------------------------------------------- concurrent cleanups
\* two runs of cleanupOldBackups for p1 at once: the one performBackup ends
\* with and the one of another run or of the cleanup command; nothing in the
\* service serialises them
Cleaners == {1, 2}

Cleaner(pc, todo) == [pc |-> pc, todo |-> todo]
NoCleaners == [pc |-> "idle", verified |-> -1,
               procs |-> [i \in Cleaners |-> Cleaner("ready", <<>>)]]

NoneStarted == \A i \in Cleaners : run.procs[i].pc = "ready"

VerifiedNow(pid) == verifiedBackups(jobs, storage, JobsOfPolicy(jobs, pid), {})

\* cleanupOldBackups of cleaner i up to the loop: getBackupsForPolicy, the
\* early return, sort.Slice (rows of equal created_at in any order) and
\* backups[policy.RetentionCount:].  run.verified keeps the number of verified
\* backups the first cleaner found.
ListBackups(i, pid) ==
    /\ run.procs[i].pc = "ready"
    /\ pid \in DOMAIN policies
    /\ LET retention == policies[pid].retention_count
           V == VerifiedNow(pid)
           n == IF NoneStarted THEN Cardinality(V) ELSE run.verified
       IN IF IsUnlimited(retention) \/ Cardinality(V) <= retention
          THEN run' = [run EXCEPT !.verified = n, !.procs[i] = Cleaner("done", <<>>)]
          ELSE \E ord \in DescOrders(jobs, V) :
                  run' = [run EXCEPT
                             !.verified = n,
                             !.procs[i] = Cleaner("deleting",
                                                  SubSeq(ord, KeepCount(retention) + 1, Len(ord)))]
    /\ ret' = Ret("none", TRUE)
    /\ UNCHANGED <<now, backend, catalogVars, storage, partial, memJobs, tempDirs, cancelled>>

\* one turn of the loop of cleaner i: deleteBackup of the next row (its path
\* is the one read by the list: a row's backup_path is never rewritten); an
\* error is logged and the loop goes on
DeleteNext(i) ==
    /\ run.procs[i].pc = "deleting"
    /\ LET todo == run.procs[i].todo
           j == Head(todo)
           r == deleteBackup(backend, [storage |-> storage, cat |-> Catalog], j,
                             jobs[j].backup_path, 0)
       IN /\ storage' = r.storage
          /\ partial' = partial \cap r.storage
          /\ policies' = r.cat.policies
          /\ jobs' = r.cat.jobs
          /\ results' = r.cat.results
          /\ files' = r.cat.files
          /\ run' = [run EXCEPT !.procs[i] =
                        IF Len(todo) = 1 THEN Cleaner("done", <<>>)
                        ELSE Cleaner("deleting", Tail(todo))]
    /\ ret' = Ret("none", TRUE)
    /\ UNCHANGED <<now, backend, memJobs, tempDirs, cancelled>>

InitConcurrent ==
    /\ now = 0
    /\ backend \in CleanupBackends
    /\ policies = [p \in {"p1"} |-> PolicyRow(1, TRUE, FALSE)]
    /\ jobs = <<>>
    /\ results = {}
    /\ files = <<>>
    /\ storage = {}
    /\ partial = {}
    /\ memJobs = <<>>
    /\ run = NoCleaners
    /\ tempDirs = <<>>
    /\ cancelled = FALSE
    /\ ret = Ret("none", TRUE)

\* the backups are recorded first, then the cleaners run in any interleaving
NextConcurrent ==
    \/ NoneStarted /\ Tick
    \/ \E in \in CleanupJobInputs :
          /\ NoneStarted
          /\ in.pid = "p1" /\ in.status = JobStatusCompleted
          /\ NextCleanupRow \in 1..MaxRows
          /\ RecordBackup(NextCleanupRow, in.pid, in.status, in.path)
    \/ \E i \in Cleaners : ListBackups(i, "p1")
    \/ \E i \in Cleaners : DeleteNext(i)

SpecConcurrent == InitConcurrent /\ [][NextConcurrent]_vars

\* ---------------------------------------------------- the storage layer
\* MultiStorage over up to MaxMembers providers (NewMultiStorage is variadic:
\* it can be built with none); one artifact path
MaxMembers == 2
Compositions == UNION {[1..n -> Backends] : n \in 0..MaxMembers}
ArtifactPath == RemotePath("p1", 0)

ObjectOf(i, path) == <<i, path>>

\* `return fmt.Errorf(...)` inside the loop of MultiStorage.Upload: the copies
\* written so far stay
uploadFailureUndone(before, after) == before
uploadFailure(before, after) == after

\* MultiStorage.Upload from member i on; fault[i] is the fate of member i's
\* Upload.  at is the member whose Upload failed, 0 if none did.
RECURSIVE multiUploadFrom(_, _, _, _, _, _)
multiUploadFrom(members, st0, st, i, path, fault) ==
    IF i > Len(members)
    THEN [storage |-> st.storage, partial |-> st.partial, ok |-> TRUE, at |-> 0]
    ELSE LET r == Upload(members[i], st, ObjectOf(i, path), fault[i]) IN
         IF r.ok
         THEN multiUploadFrom(members, st0, [storage |-> r.storage, partial |-> r.partial],
                              i + 1, path, fault)
         ELSE LET u == uploadFailure(st0, r) IN
              [storage |-> u.storage, partial |-> u.partial, ok |-> FALSE, at |-> i]

multiUpload(members, st, path, fault) == multiUploadFrom(members, st, st, 1, path, fault)

\* Download of one provider: os.Open, FGetObject, NewReader fail on an absent
\* object; fault is any other failure
DownloadFails(store, obj, fault) == fault \/ ~StorageExists(store, obj)

\* MultiStorage.Download from member i on: tried lists the members asked,
\* served is the member whose Download returned nil (0 if none); after the
\* loop `return lastErr`, which is nil when no member was asked
RECURSIVE multiDownloadFrom(_, _, _, _, _, _)
multiDownloadFrom(members, store, i, path, fault, tried) ==
    IF i > Len(members)
    THEN [ok |-> tried = <<>>, served |-> 0, tried |-> tried]
    ELSE IF DownloadFails(store, ObjectOf(i, path), fault[i])
    THEN multiDownloadFrom(members, store, i + 1, path, fault, Append(tried, i))
    ELSE [ok |-> TRUE, served |-> i, tried |-> Append(tried, i)]

multiDownload(members, store, path, fault) ==
    multiDownloadFrom(members, store, 1, path, fault, <<>>)

\* Delete of provider i of kind b: the store afterwards and whether it errs
memberDelete(b, store, obj, fault) ==
    IF fault \/ StorageDeleteFails(b, store, obj)
    THEN [storage |-> store, ok |-> FALSE]
    ELSE [storage |-> StorageDelete(store, obj), ok |-> TRUE]

\* MultiStorage.Delete: every member is asked, the errors are collected
RECURSIVE multiDeleteFrom(_, _, _, _, _, _)
multiDeleteFrom(members, store, i, path, fault, errors) ==
    IF i > Len(members)
    THEN [storage |-> store, ok |-> errors = {}, errors |-> errors]
    ELSE LET r == memberDelete(members[i], store, ObjectOf(i, path), fault[i]) IN
         multiDeleteFrom(members, r.storage, i + 1, path, fault,
                         IF r.ok THEN errors ELSE errors \cup {i})

multiDelete(members, store, path, fault) ==
    multiDeleteFrom(members, store, 1, path, fault, {})

Members == 1..Len(backend)

\* ret of a storage call: job is the member that failed (Upload) or served
\* (Download), todo the members asked, failed the members that erred
StorageRet(op, ok, at, tried, errors, injected) ==
    [Ret(op, ok) EXCEPT !.job = at, !.todo = tried, !.failed = errors,
                        !.fault = injected, !.result = ArtifactPath]

StorageFrame == UNCHANGED <<now, backend, catalogVars, pipelineVars, cancelled>>

MultiUpload(path) ==
    \E fault \in [Members -> UploadFaults] :
       LET r == multiUpload(backend, [storage |-> storage, partial |-> partial], path, fault) IN
          /\ storage' = r.storage
          /\ partial' = r.partial
          /\ ret' = StorageRet("MultiStorage.Upload", r.ok, r.at, <<>>, {},
                               \E i \in Members : fault[i] # "none")
          /\ StorageFrame

MultiDownload(path) ==
    \E fault \in [Members -> BOOLEAN] :
       LET r == multiDownload(backend, storage, path, fault) IN
          /\ ret' = StorageRet("MultiStorage.Download", r.ok, r.served, r.tried, {},
                               \E i \in Members : fault[i])
          /\ UNCHANGED <<storage, partial>>
          /\ StorageFrame

MultiDelete(path) ==
    \E fault \in [Members -> BOOLEAN] :
       LET r == multiDelete(backend, storage, path, fault) IN
          /\ storage' = r.storage
          /\ partial' = partial \cap r.storage
          /\ ret' = StorageRet("MultiStorage.Delete", r.ok, 0, <<>>, r.errors,
                               \E i \in Members : fault[i])
          /\ StorageFrame

\* Delete called on one provider by itself (LocalStorage.Delete,
\* S3Storage.Delete, GCSStorage.Delete)
Delete(i, path) ==
    \E fault \in BOOLEAN :
       LET r == memberDelete(backend[i], storage, ObjectOf(i, path), fault) IN
          /\ storage' = r.storage
          /\ partial' = partial \cap r.storage
          /\ ret' = StorageRet("Delete", r.ok, i, <<>>, IF r.ok THEN {} ELSE {i}, fault)
          /\ StorageFrame

InitStorage ==
    /\ now = 0
    /\ backend \in Compositions
    /\ policies = <<>>
    /\ jobs = <<>>
    /\ results = {}
    /\ files = <<>>
    /\ storage = {}
    /\ partial = {}
    /\ memJobs = <<>>
    /\ run = IdleRun
    /\ tempDirs = <<>>
    /\ cancelled = FALSE
    /\ ret = Ret("none", TRUE)

NextStorage ==
    \/ MultiUpload(ArtifactPath)
    \/ MultiDownload(ArtifactPath)
    \/ MultiDelete(ArtifactPath)
    \/ \E i \in Members : Delete(i, ArtifactPath)

SpecStorage == InitStorage /\ [][NextStorage]_vars

\* ---------------------------------------------------- archives (tar.gz)
\* A path is [abs, segs]: whether it starts at the root and its elements, each
\* element a tuple of characters, so that strings.HasPrefix can be computed on
\* the characters as the code does.
Dot == <<".">>
DotDot == <<".", ".">>
Seg(c) == <<c>>
Path(abs, segs) == [abs |-> abs, segs |-> segs]

\* filepath.Clean on the elements: "." is dropped, ".." removes the element
\* before it, is dropped at the root and kept at the start of a relative path
RECURSIVE CleanSegs(_, _, _)
CleanSegs(abs, todo, out) ==
    IF todo = <<>> THEN out
    ELSE LET h == Head(todo) IN
         CleanSegs(abs, Tail(todo),
                   IF h = Dot THEN out
                   ELSE IF h = DotDot
                        THEN IF out # <<>> /\ out[Len(out)] # DotDot
                             THEN SubSeq(out, 1, Len(out) - 1)
                             ELSE IF abs THEN out ELSE Append(out, h)
                        ELSE Append(out, h))

Clean(p) == Path(p.abs, CleanSegs(p.abs, p.segs, <<>>))

\* filepath.Join(destPath, header.Name): the two strings joined by a separator
\* and cleaned; a leading separator of the name disappears in the cleaning
Join(d, n) == Clean(Path(d.abs, d.segs \o n.segs))

\* the characters of a cleaned path
RECURSIVE Flat(_)
Flat(segs) ==
    IF segs = <<>> THEN <<>>
    ELSE IF Len(segs) = 1 THEN Head(segs)
    ELSE Head(segs) \o <<"/">> \o Flat(Tail(segs))

StrOf(p) ==
    IF p.segs = <<>> THEN (IF p.abs THEN <<"/">> ELSE <<".">>)
    ELSE (IF p.abs THEN <<"/">> ELSE <<>>) \o Flat(p.segs)

HasPrefix(str, prefix) ==
    Len(str) >= Len(prefix) /\ SubSeq(str, 1, Len(prefix)) = prefix

DestPrefixNoSeparator(dest) == StrOf(Clean(dest))

\* filepath.Clean(destPath) + string(os.PathSeparator)
DestPrefix(dest) == StrOf(Clean(dest)) \o <<"/">>

\* the zip-slip test of extractArchive
IsSafePath(dest, full) == HasPrefix(StrOf(full), DestPrefix(dest))

\* where a path is in the file system: relative paths start at the working
\* directory
Cwd == <<Seg("w")>>
Resolve(p) == IF p.abs THEN CleanSegs(TRUE, p.segs, <<>>)
              ELSE CleanSegs(TRUE, Cwd \o p.segs, <<>>)

IsPrefixOf(a, b) == Len(a) <= Len(b) /\ SubSeq(b, 1, Len(a)) = a

\* a file system: location -> directory or regular file with its bytes
DirNode == [dir |-> TRUE, data |-> <<>>]
FileNode(data) == [dir |-> FALSE, data |-> data]

IsDir(fs, loc) == loc = <<>> \/ loc = Cwd \/ (loc \in DOMAIN fs /\ fs[loc].dir)
IsFile(fs, loc) == loc \in DOMAIN fs /\ ~fs[loc].dir

Ancestors(loc) == {SubSeq(loc, 1, n) : n \in 0..(Len(loc) - 1)}

\* os.MkdirAll(loc): fails when an element of loc is a regular file
MkdirAllFails(fs, loc) == \E a \in Ancestors(loc) \cup {loc} : IsFile(fs, a)
MkdirAll(fs, loc) ==
    LET new == {a \in Ancestors(loc) \cup {loc} : ~IsDir(fs, a)} IN
    [l \in DOMAIN fs \cup new |-> IF l \in new THEN DirNode ELSE fs[l]]

\* os.OpenFile(O_CREATE|O_WRONLY) and io.Copy: the bytes are written from the
\* start of the file; what an existing file held beyond them stays
WriteFile(fs, loc, data) ==
    LET old == IF IsFile(fs, loc) THEN fs[loc].data ELSE <<>>
        new == data \o SubSeq(old, Len(data) + 1, Len(old))
    IN [l \in DOMAIN fs \cup {loc} |-> IF l = loc THEN FileNode(new) ELSE fs[l]]

TypeDir == "dir"
TypeReg == "reg"
TypeSymlink == "symlink"
Entry(name, type, data) == [name |-> name, type |-> type, data |-> data]

\* one turn of the loop of extractArchive on entry e
extractEntry(dest, fs, e) ==
    LET full == Join(dest, e.name)
        loc == Resolve(full)
        parent == SubSeq(loc, 1, Len(loc) - 1)
    IN IF ~IsSafePath(dest, full) THEN [fs |-> fs, ok |-> FALSE, unsafe |-> TRUE]
       ELSE IF e.type = TypeDir
       THEN IF MkdirAllFails(fs, loc) THEN [fs |-> fs, ok |-> FALSE, unsafe |-> FALSE]
            ELSE [fs |-> MkdirAll(fs, loc), ok |-> TRUE, unsafe |-> FALSE]
       ELSE IF e.type = TypeReg
       THEN IF MkdirAllFails(fs, parent) THEN [fs |-> fs, ok |-> FALSE, unsafe |-> FALSE]
            ELSE IF IsDir(fs, loc)
            THEN [fs |-> MkdirAll(fs, parent), ok |-> FALSE, unsafe |-> FALSE]
            ELSE [fs |-> WriteFile(MkdirAll(fs, parent), loc, e.data),
                  ok |-> TRUE, unsafe |-> FALSE]
       ELSE [fs |-> fs, ok |-> TRUE, unsafe |-> FALSE]

\* the trees createArchive is given: the directory s (the backup name) with a
\* file f, an empty or non-empty directory d, or neither
Contents == {<<>>, <<7>>, <<7, 9>>}
TreeNodes == << <<Seg("s")>>, <<Seg("s"), Seg("d")>>, <<Seg("s"), Seg("d"), Seg("f")>>,
                <<Seg("s"), Seg("f")>> >>
IsTree(t) ==
    /\ t[TreeNodes[1]].dir
    /\ TreeNodes[2] \in DOMAIN t => t[TreeNodes[2]].dir
    /\ TreeNodes[3] \in DOMAIN t => TreeNodes[2] \in DOMAIN t /\ ~t[TreeNodes[3]].dir
    /\ TreeNodes[4] \in DOMAIN t => ~t[TreeNodes[4]].dir
Trees ==
    UNION {{t \in [D -> {DirNode} \cup {FileNode(c) : c \in Contents}] : IsTree(t)}
           : D \in {D \in SUBSET {TreeNodes[i] : i \in 1..Len(TreeNodes)} : TreeNodes[1] \in D}}

\* sourcePath is filepath.Join(tempDir, backupName): absolute and clean
TempDir == <<Seg("t")>>

\* filepath.Rel(baseDir, filePath), baseDir = filepath.Dir(sourcePath)
Rel(base, file) ==
    IF file = base THEN <<Dot>> ELSE SubSeq(file, Len(base) + 1, Len(file))

\* createArchive: filepath.Walk visits the tree in lexical order and writes
\* one entry per node, named by its path relative to the parent of sourcePath
createArchive(t) ==
    LET walk == SelectSeq(TreeNodes, LAMBDA n : n \in DOMAIN t)
    IN [i \in 1..Len(walk) |->
          Entry(Path(FALSE, Rel(TempDir, TempDir \o walk[i])),
                IF t[walk[i]].dir THEN TypeDir ELSE TypeReg,
                t[walk[i]].data)]

\* archives that did not come from createArchive
MaxEntries == 2
ForeignNames ==
    {Path(FALSE, <<Seg("f")>>),
     Path(FALSE, <<DotDot, DotDot, Seg("f")>>),
     Path(FALSE, <<DotDot, <<"d", "x">>, Seg("f")>>),
     Path(TRUE, <<Seg("f")>>),
     Path(FALSE, <<Dot>>)}
ForeignEntries ==
    {Entry(n, ty, <<7>>) : n \in ForeignNames, ty \in {TypeDir, TypeReg, TypeSymlink}}
ForeignArchives == UNION {[1..n -> ForeignEntries] : n \in 1..MaxEntries}

\* destPath: absolute, relative, the working directory itself
Dests == {Path(TRUE, <<Seg("d")>>), Path(FALSE, <<Seg("d")>>), Path(FALSE, <<Dot>>)}

NoArchive == [pc |-> "idle"]

ArchiveFrame ==
    /\ ret' = Ret("none", TRUE)
    /\ UNCHANGED <<now, backend, catalogVars, storage, partial, memJobs, tempDirs, cancelled>>

CreateArchive(t) ==
    /\ run.pc = "idle"
    /\ run' = [pc |-> "archived", origin |-> "createArchive", tree |-> t,
               archive |-> createArchive(t)]
    /\ ArchiveFrame

ReceiveArchive(a) ==
    /\ run.pc = "idle"
    /\ run' = [pc |-> "archived", origin |-> "foreign", tree |-> <<>>, archive |-> a]
    /\ ArchiveFrame

\* what the destination holds before the extraction: nothing, or the file
\* s/f of an earlier extraction, longer than any file of the archive
OldContent == <<9, 9, 9>>
DestStates(dest) ==
    LET root == Resolve(dest) IN
    {<<>>, WriteFile(MkdirAll(<<>>, root \o <<Seg("s")>>), root \o TreeNodes[4], OldContent)}

\* extractArchive opens the archive
BeginExtract(dest, before) ==
    /\ run.pc = "archived"
    /\ run' = [pc |-> "extracting", origin |-> run.origin, tree |-> run.tree,
               archive |-> run.archive, dest |-> dest, pos |-> 1, before |-> before,
               fs |-> before, unsafe |-> FALSE]
    /\ ArchiveFrame

\* one turn of the loop: tarReader.Next, then the entry or the end
ExtractNext ==
    /\ run.pc = "extracting"
    /\ IF run.pos > Len(run.archive)
       THEN run' = [run EXCEPT !.pc = "extracted"]
       ELSE LET r == extractEntry(run.dest, run.fs, run.archive[run.pos]) IN
            run' = [run EXCEPT !.pc = IF r.ok THEN "extracting" ELSE "failed",
                               !.pos = IF r.ok THEN run.pos + 1 ELSE run.pos,
                               !.fs = r.fs,
                               !.unsafe = r.unsafe]
    /\ ArchiveFrame

InitArchive ==
    /\ now = 0
    /\ backend = "local"
    /\ policies = <<>>
    /\ jobs = <<>>
    /\ results = {}
    /\ files = <<>>
    /\ storage = {}
    /\ partial = {}
    /\ memJobs = <<>>
    /\ run = NoArchive
    /\ tempDirs = <<>>
    /\ cancelled = FALSE
    /\ ret = Ret("none", TRUE)

NextArchive ==
    \/ \E t \in Trees : CreateArchive(t)
    \/ \E a \in ForeignArchives : ReceiveArchive(a)
    \/ \E dest \in Dests : \E before \in DestStates(dest) : BeginExtract(dest, before)
    \/ ExtractNext

SpecArchive == InitArchive /\ [][NextArchive]_vars

\* ---------------------------------------------------- encryption (AES-GCM)
\* sizes scaled down: the 64 KiB buffer of encryptFile, the tag gcm.Seal
\* appends (gcm.Overhead), the bytes of a nonce (gcm.NonceSize) and the values
\* of a byte
ChunkSize == 2
Overhead == 1
NonceSize == 2

Bytes == {0, 1}
ByteValues == Cardinality(Bytes)
NonceSpace == ByteValues ^ NonceSize
MaxBytes == 2 * ChunkSize + 1
Plaintexts == UNION {[1..n -> Bytes] : n \in 0..MaxBytes}
Passwords == {"pw1", "pw2"}
Nonces == [1..NonceSize -> Bytes]

\* deriveKey: PBKDF2 of the password with the static salt
deriveKey(password) == <<"pbkdf2", "backupist-salt-2024", password>>

RECURSIVE incrementUpFrom(_, _)
incrementUpFrom(nonce, i) ==
    IF i > Len(nonce) THEN nonce
    ELSE LET v == (nonce[i] + 1) % ByteValues
             next == [nonce EXCEPT ![i] = v]
         IN IF v # 0 THEN next ELSE incrementUpFrom(next, i + 1)

incrementNonceLittleEndian(nonce) == incrementUpFrom(nonce, 1)

\* the loop of incrementNonce from byte i down: nonce[i]++ wraps within the
\* byte, the loop ends at the first byte that did not wrap to zero
RECURSIVE incrementDownFrom(_, _)
incrementDownFrom(nonce, i) ==
    IF i < 1 THEN nonce
    ELSE LET v == (nonce[i] + 1) % ByteValues
             next == [nonce EXCEPT ![i] = v]
         IN IF v # 0 THEN next ELSE incrementDownFrom(next, i - 1)

\* incrementNonce: `for i := len(nonce) - 1; i >= 0; i--`
incrementNonce(nonce) == incrementDownFrom(nonce, Len(nonce))

\* gcm.Seal(nil, nonce, chunk, nil): the chunk enciphered byte by byte under
\* (key, nonce), followed by the tag over the enciphered bytes
Encipher(key, nonce, chunk) ==
    [i \in 1..Len(chunk) |-> [key |-> key, nonce |-> nonce, at |-> i, byte |-> chunk[i]]]
Tag(key, nonce, body) == [tag |-> <<key, nonce, body>>]
Seal(key, nonce, chunk) ==
    LET body == Encipher(key, nonce, chunk) IN
    body \o [i \in 1..Overhead |-> Tag(key, nonce, body)]

\* gcm.Open(nil, nonce, data, nil): fails on data shorter than the tag and on
\* a tag that is not the one of the body under (key, nonce)
OpenFails(key, nonce, data) ==
    \/ Len(data) < Overhead
    \/ LET body == SubSeq(data, 1, Len(data) - Overhead) IN
       \E i \in (Len(data) - Overhead + 1)..Len(data) : data[i] # Tag(key, nonce, body)
Open(data) == [i \in 1..(Len(data) - Overhead) |-> data[i].byte]

\* inputFile.Read(buffer) on a regular file: the next len(buffer) bytes, fewer
\* at the end of the file
ReadAt(file, pos, size) == SubSeq(file, pos + 1, Min(pos + size, Len(file)))

EncryptedBlockSizeWithoutTag == ChunkSize

\* encryptedBlockSize := 64*1024 + gcm.Overhead()
EncryptedBlockSize == ChunkSize + Overhead

NoCrypto == [pc |-> "idle"]

CryptoFrame ==
    /\ ret' = Ret("none", TRUE)
    /\ UNCHANGED <<now, backend, catalogVars, storage, partial, memJobs, tempDirs, cancelled>>

\* encryptFile up to the loop: the key, the random nonce written first
BeginEncrypt(plain, password, nonce) ==
    /\ run.pc = "idle"
    /\ run' = [pc |-> "encrypting", plain |-> plain, password |-> password,
               key |-> deriveKey(password), nonce |-> nonce, pos |-> 0,
               enc |-> <<[nonce |-> nonce]>>, sealed |-> <<>>]
    /\ CryptoFrame

\* one turn of the loop of encryptFile
EncryptChunk ==
    /\ run.pc = "encrypting"
    /\ LET chunk == ReadAt(run.plain, run.pos, ChunkSize) IN
       IF chunk = <<>>
       THEN run' = [pc |-> "encrypted", plain |-> run.plain, password |-> run.password,
                    enc |-> run.enc, sealed |-> run.sealed]
       ELSE run' = [run EXCEPT !.enc = run.enc \o Seal(run.key, run.nonce, chunk),
                               !.sealed = Append(run.sealed, run.nonce),
                               !.pos = run.pos + Len(chunk),
                               !.nonce = incrementNonce(run.nonce)]
    /\ CryptoFrame

\* a byte of a stored artifact that is no longer the byte encryptFile wrote
Corrupted == [corrupted |-> TRUE]

\* the files decryptFile is given for an artifact: the artifact as encryptFile
\* wrote it, or with the first byte of one of its sealed chunks altered at rest
StoredArtifacts(enc) ==
    {enc} \cup {[enc EXCEPT ![i] = Corrupted] :
                   i \in {k \in 2..Len(enc) : (k - 2) % (ChunkSize + Overhead) = 0}}

\* decryptFile up to the loop: the key, the output file created empty, the
\* nonce read from the start of the input
BeginDecrypt(password, input) ==
    /\ run.pc = "encrypted"
    /\ run' = [pc |-> "decrypting", plain |-> run.plain, password |-> run.password,
               enc |-> run.enc, sealed |-> run.sealed, input |-> input,
               with |-> password, key |-> deriveKey(password),
               nonce |-> input[1].nonce, pos |-> 1,
               out |-> <<>>, chunks |-> 0, opened |-> <<>>]
    /\ CryptoFrame

\* one turn of the loop of decryptFile: a chunk that opens is written to the
\* output file before the next one is read; on a failure the function returns
\* the error and the output file stays as it is
DecryptChunk ==
    /\ run.pc = "decrypting"
    /\ LET data == ReadAt(run.input, run.pos, EncryptedBlockSize) IN
       IF data = <<>>
       THEN run' = [run EXCEPT !.pc = "decrypted"]
       ELSE IF OpenFails(run.key, run.nonce, data)
       THEN run' = [run EXCEPT !.pc = "authentication failed",
                               !.opened = Append(run.opened, run.nonce)]
       ELSE run' = [run EXCEPT !.out = run.out \o Open(data),
                               !.opened = Append(run.opened, run.nonce),
                               !.pos = run.pos + Len(data),
                               !.nonce = incrementNonce(run.nonce),
                               !.chunks = run.chunks + 1]
    /\ CryptoFrame

InitCrypto ==
    /\ now = 0
    /\ backend = "local"
    /\ policies = <<>>
    /\ jobs = <<>>
    /\ results = {}
    /\ files = <<>>
    /\ storage = {}
    /\ partial = {}
    /\ memJobs = <<>>
    /\ run = NoCrypto
    /\ tempDirs = <<>>
    /\ cancelled = FALSE
    /\ ret = Ret("none", TRUE)

NextCrypto ==
    \/ \E plain \in Plaintexts, password \in Passwords, nonce \in Nonces :
          BeginEncrypt(plain, password, nonce)
    \/ EncryptChunk
    \/ /\ run.pc = "encrypted"
       /\ \E password \in Passwords : \E input \in StoredArtifacts(run.enc) :
             BeginDecrypt(password, input)
    \/ DecryptChunk

SpecCrypto == InitCrypto /\ [][NextCrypto]_vars

\* ------------------------------------------------------ compression ratio
\* the size of the file createArchive leaves at archivePath: tar and gzip give
\* some positive number of bytes, below, at or above the bytes of the tree
MaxArchiveSize == 3
ArchiveSizes == 1..MaxArchiveSize

RECURSIVE SumSizes(_, _)
SumSizes(t, nodes) ==
    IF nodes = {} THEN 0
    ELSE LET n == CHOOSE n \in nodes : TRUE
         IN (IF t[n].dir THEN 0 ELSE Len(t[n].data)) + SumSizes(t, nodes \ {n})

\* getDirectorySize: filepath.Walk from path adds info.Size() of every entry
\* that is not a directory; from a regular file it visits that file alone
getDirectorySize(work, path) ==
    IF path = "archive" THEN work.archive ELSE SumSizes(work.copy, DOMAIN work.copy)

\* getFileSize: os.Stat(filePath).Size()
getFileSize(work, path) == work.archive

\* the working copy at backupPath after copyFiles, policy.ArchiveEnabled
BeginArchiveStep(t) ==
    /\ run.pc = "idle"
    /\ run' = [pc |-> "archive", work |-> [copy |-> t, archive |-> 0], backupPath |-> "copy"]
    /\ ArchiveFrame

\* createArchive(ctx, backupPath, archivePath); backupPath = archivePath
ArchiveWorkingCopy(size) ==
    /\ run.pc = "archive"
    /\ run' = [run EXCEPT !.pc = "measure", !.work.archive = size, !.backupPath = "archive"]
    /\ ArchiveFrame

\* originalSize of getDirectorySize(backupPath), compressedSize of
\* getFileSize(archivePath); the ratio is kept as numerator over denominator
MeasureRatio ==
    /\ run.pc = "measure"
    /\ LET originalSize == getDirectorySize(run.work, run.backupPath)
           compressedSize == getFileSize(run.work, "archive")
       IN run' = [pc |-> "measured", work |-> run.work,
                  CompressionRatio |-> [num |-> originalSize, den |-> compressedSize],
                  CompressedSize |-> compressedSize]
    /\ ArchiveFrame

NextRatio ==
    \/ \E t \in Trees : BeginArchiveStep(t)
    \/ \E size \in ArchiveSizes : ArchiveWorkingCopy(size)
    \/ MeasureRatio

SpecRatio == InitArchive /\ [][NextRatio]_vars

\* ---------------------------------------------------- incremental archives
\* the trees createIncrementalArchive is given: the shapes of Trees, every file
\* one byte long, every node with a modification time
IncrementalTrees == {t \in Trees : \A n \in DOMAIN t : ~t[n].dir => t[n].data = <<7>>}

\* baselinePath: empty, a path os.Stat fails on, or an archive modified at t
NoBaseline == [given |-> FALSE, readable |-> FALSE, mtime |-> 0]
UnreadableBaseline == [given |-> TRUE, readable |-> FALSE, mtime |-> 0]
Baseline(t) == [given |-> TRUE, readable |-> TRUE, mtime |-> t]
Baselines == {NoBaseline, UnreadableBaseline} \cup {Baseline(t) : t \in Times}

\* time.Time{}: before every modification time
ZeroTime == -1

\* baselineTime: the zero time unless baselinePath is given and os.Stat succeeds
baselineTime(b) == IF b.given /\ b.readable THEN b.mtime ELSE ZeroTime

\* `!baselineTime.IsZero() && info.ModTime().Before(baselineTime)`
IsSkipped(mtime, bt) == bt # ZeroTime /\ mtime < bt

BeginIncremental(t, mtimes, b) ==
    /\ run.pc = "idle"
    /\ run' = [pc |-> "walking", tree |-> t, mtimes |-> mtimes, baseline |-> b,
               baselineTime |-> baselineTime(b),
               walk |-> SelectSeq(TreeNodes, LAMBDA n : n \in DOMAIN t),
               pos |-> 1, archive |-> <<>>]
    /\ ArchiveFrame

\* one call of the function filepath.Walk is given
WalkNext ==
    /\ run.pc = "walking"
    /\ IF run.pos > Len(run.walk)
       THEN run' = [run EXCEPT !.pc = "archived"]
       ELSE LET n == run.walk[run.pos] IN
            run' = [run EXCEPT
                      !.pos = run.pos + 1,
                      !.archive =
                         IF IsSkipped(run.mtimes[n], run.baselineTime)
                         THEN run.archive
                         ELSE Append(run.archive,
                                     Entry(Path(FALSE, Rel(TempDir, TempDir \o n)),
                                           IF run.tree[n].dir THEN TypeDir ELSE TypeReg,
                                           run.tree[n].data))]
    /\ ArchiveFrame

NextIncremental ==
    \/ \E t \in IncrementalTrees : \E mtimes \in [DOMAIN t -> Times] : \E b \in Baselines :
          BeginIncremental(t, mtimes, b)
    \/ WalkNext

SpecIncremental == InitArchive /\ [][NextIncremental]_vars

\* ---------------------------------------------------- the catalog alone
\* saveBackupResult: INSERT INTO backup_results, id result_<job id>; a second
\* row for the same job violates the primary key
SaveBackupResult(j, fail) ==
    /\ results' = IF fail \/ j \in results THEN results ELSE results \cup {j}
    /\ ret' = Ret("none", TRUE)
    /\ UNCHANGED <<now, backend, policies, jobs, files, storage, partial, pipelineVars, cancelled>>

\* a row of table backup_files (id, job_id); no function of the package writes
\* one, the table is filled from outside.  Foreign keys are not enforced.
NextFileRow == Cardinality(DOMAIN files) + 1

InsertBackupFile(f, j) ==
    /\ f \in FileRowIds \ DOMAIN files
    /\ files' = Put(files, f, j)
    /\ ret' = Ret("none", TRUE)
    /\ UNCHANGED <<now, backend, policies, jobs, results, storage, partial, pipelineVars, cancelled>>

DeletePolicySteps == 6

DeletePolicy(pid, failAt) ==
    /\ LET d == deletePolicy(Catalog, pid, failAt) IN
          /\ policies' = d.policies
          /\ jobs' = d.jobs
          /\ results' = d.results
          /\ files' = d.files
    /\ ret' = [Ret("deletePolicy", failAt = 0) EXCEPT !.policy = pid]
    /\ UNCHANGED <<now, backend, storage, partial, pipelineVars, cancelled>>

InitCatalog ==
    /\ now = 0
    /\ backend = "local"
    /\ policies = <<>>
    /\ jobs = <<>>
    /\ results = {}
    /\ files = <<>>
    /\ storage = {}
    /\ partial = {}
    /\ memJobs = <<>>
    /\ run = IdleRun
    /\ tempDirs = <<>>
    /\ cancelled = FALSE
    /\ ret = Ret("none", TRUE)

\* a job's result and file rows are written right after its job row
LastSaved == NextJobId - 1

NextCatalog ==
    \/ \E pid \in PolicyIds, fail \in BOOLEAN : SavePolicy(pid, PolicyRow(1, TRUE, FALSE), fail)
    \/ \E pid \in PolicyIds, fail \in BOOLEAN :
          /\ NextJobId \in JobIds
          /\ SaveBackupJob(NextJobId, pid, JobStatusCompleted, RemotePath(pid, now), fail)
    \/ \E fail \in BOOLEAN : LastSaved \in DOMAIN jobs /\ SaveBackupResult(LastSaved, fail)
    \/ LastSaved \in DOMAIN jobs /\ InsertBackupFile(NextFileRow, LastSaved)
    \/ \E pid \in PolicyIds, failAt \in 0..DeletePolicySteps : DeletePolicy(pid, failAt)

SpecCatalog == InitCatalog /\ [][NextCatalog]_vars

\* ----------------------------------------------------- the backup pipeline
MaxSourceFiles == 1

Steps1to6 == {"scan", "copy", "archive", "encrypt", "checksum", "upload"}

\* CreateBackupJob's &types.BackupJob{...}
JobObj(pid) == [policy_id |-> pid, status |-> JobStatusPending, error |-> ""]

\* config.ValidateBackupPolicy: RetentionCount `validate:"min=1,max=100"`
ValidateBackupPolicy(row) == row.retention_count >= 1 /\ row.retention_count <= 100

NextMemJob == Cardinality(DOMAIN memJobs) + 1

CreateBackupJob(pid, row, fail) ==
    /\ run.pc = "idle"
    /\ NextMemJob \in JobIds
    /\ IF ~ValidateBackupPolicy(row) \/ fail \/ cancelled
       THEN /\ ret' = Ret("CreateBackupJob", FALSE)
            /\ UNCHANGED <<policies, memJobs>>
       ELSE /\ policies' = Put(policies, pid, row)
            /\ memJobs' = Put(memJobs, NextMemJob, JobObj(pid))
            /\ ret' = [Ret("CreateBackupJob", TRUE) EXCEPT !.job = NextMemJob, !.policy = pid]
    /\ UNCHANGED <<now, backend, jobs, results, files, storage, partial, run, tempDirs, cancelled>>

\* ExecuteBackup up to the call of performBackup
BeginExecute(j, fail) ==
    /\ run.pc = "idle"
    /\ j \in DOMAIN memJobs
    /\ IF memJobs[j].policy_id \notin DOMAIN policies \/ fail \/ cancelled
       THEN /\ ret' = [Ret("ExecuteBackup", FALSE) EXCEPT !.job = j, !.phase = "getPolicy"]
            /\ UNCHANGED <<memJobs, run>>
       ELSE /\ memJobs' = [memJobs EXCEPT ![j].status = JobStatusRunning]
            /\ run' = [pc |-> "mktemp", job |-> j, policy |-> memJobs[j].policy_id,
                       retention |-> policies[memJobs[j].policy_id].retention_count,
                       archive |-> policies[memJobs[j].policy_id].archive_enabled,
                       encrypt |-> policies[memJobs[j].policy_id].encryption_enabled,
                       path |-> "copy", stamp |-> 0, cancelAt |-> "none"]
            /\ ret' = Ret("none", TRUE)
    /\ UNCHANGED <<now, backend, catalogVars, storage, partial, tempDirs, cancelled>>

RemoveOnSuccessOnly(dirs, d, phase) == IF phase = "retain" THEN Drop(dirs, {d}) ELSE dirs

\* the deferred os.RemoveAll(tempDir): it runs whatever phase returned
performBackupExit(dirs, d, phase) == Drop(dirs, {d})

\* err.Error() of a failed performBackup: some non-empty text (the model does
\* not tell the texts apart; the failing phase is kept in ret)
ErrorText(phase) == "backup failed"

FailJobKeepsStatus(job, msg) == [job EXCEPT !.error = msg]

\* ExecuteBackup when performBackup returned an error
failJob(job, msg) == [job EXCEPT !.status = JobStatusFailed, !.error = msg]

\* ExecuteBackup when performBackup returned a result
completeJob(job) == [job EXCEPT !.status = JobStatusCompleted]

ReturnErr(phase) ==
    /\ memJobs' = [memJobs EXCEPT ![run.job] = failJob(@, ErrorText(phase))]
    /\ tempDirs' = performBackupExit(tempDirs, run.job, phase)
    /\ run' = IdleRun
    /\ ret' = [Ret("ExecuteBackup", FALSE) EXCEPT
                  !.job = run.job, !.policy = run.policy, !.phase = phase,
                  !.cancelAt = run.cancelAt]

Advance(pc) ==
    /\ run' = [run EXCEPT !.pc = pc]
    /\ ret' = Ret("none", TRUE)
    /\ UNCHANGED memJobs

\* what backupPath names: nothing, a directory or a regular file
Kind(dirs, r) ==
    IF r.path = "copy"
    THEN IF "copy" \in dirs[r.job] THEN "dir" ELSE "missing"
    ELSE "file"

\* os.MkdirTemp("", "backup-*")
StepMkTemp(fail) ==
    /\ run.pc = "mktemp"
    /\ IF fail
       THEN /\ memJobs' = [memJobs EXCEPT ![run.job] = failJob(@, ErrorText("mktemp"))]
            /\ run' = IdleRun
            /\ ret' = [Ret("ExecuteBackup", FALSE) EXCEPT
                          !.job = run.job, !.policy = run.policy, !.phase = "mktemp",
                          !.cancelAt = run.cancelAt]
            /\ UNCHANGED tempDirs
       ELSE /\ tempDirs' = Put(tempDirs, run.job, {})
            /\ Advance("scan")
    /\ UNCHANGED <<now, backend, catalogVars, storage, partial, cancelled>>

\* scanDirectory (the walk checks ctx at the root already), generateBackupName
StepScan(fail, n) ==
    /\ run.pc = "scan"
    /\ IF fail \/ cancelled
       THEN ReturnErr("scan")
       ELSE /\ run' = [run EXCEPT !.pc = "copy", !.stamp = now, !.path = "copy"]
            /\ tempDirs' = IF n > 0 THEN Put(tempDirs, run.job, {"source"}) ELSE tempDirs
            /\ ret' = Ret("none", TRUE)
            /\ UNCHANGED memJobs
    /\ UNCHANGED <<now, backend, catalogVars, storage, partial, cancelled>>

\* copyFiles: ctx is checked after each file copied, never for an empty list;
\* the directory backupPath exists only if a file was copied into it.
\* ("source" in the working directory's entry records len(files) > 0.)
StepCopy(fail) ==
    /\ run.pc = "copy"
    /\ IF "source" \notin tempDirs[run.job]
       THEN Advance("archive") /\ UNCHANGED tempDirs
       ELSE IF fail \/ cancelled
       THEN ReturnErr("copy")
       ELSE Advance("archive") /\ tempDirs' = Put(tempDirs, run.job, {"copy"})
    /\ UNCHANGED <<now, backend, catalogVars, storage, partial, cancelled>>

\* createArchive, when policy.ArchiveEnabled: the walk of a missing backupPath
\* fails, and it checks ctx at its first entry
StepArchive(fail) ==
    /\ run.pc = "archive"
    /\ IF ~run.archive
       THEN Advance("encrypt") /\ UNCHANGED tempDirs
       ELSE IF Kind(tempDirs, run) = "missing" \/ fail \/ cancelled
       THEN ReturnErr("archive")
       ELSE /\ run' = [run EXCEPT !.pc = "encrypt", !.path = "archive"]
            /\ tempDirs' = [tempDirs EXCEPT ![run.job] = @ \cup {"archive"}]
            /\ ret' = Ret("none", TRUE)
            /\ UNCHANGED memJobs
    /\ UNCHANGED <<now, backend, catalogVars, storage, partial, cancelled>>

\* encryptFile, when policy.EncryptionEnabled: os.Open fails on a missing
\* input, ctx is checked before the first Read, Read fails on a directory
StepEncrypt(fail) ==
    /\ run.pc = "encrypt"
    /\ IF ~run.encrypt
       THEN Advance("checksum") /\ UNCHANGED tempDirs
       ELSE IF Kind(tempDirs, run) # "file" \/ fail \/ cancelled
       THEN ReturnErr("encrypt")
       ELSE /\ run' = [run EXCEPT !.pc = "checksum", !.path = "enc"]
            /\ tempDirs' = [tempDirs EXCEPT ![run.job] = @ \cup {"enc"}]
            /\ ret' = Ret("none", TRUE)
            /\ UNCHANGED memJobs
    /\ UNCHANGED <<now, backend, catalogVars, storage, partial, cancelled>>

\* calculateChecksum takes no ctx; io.Copy fails on a directory
StepChecksum(fail) ==
    /\ run.pc = "checksum"
    /\ IF Kind(tempDirs, run) # "file" \/ fail
       THEN ReturnErr("checksum")
       ELSE Advance("upload") /\ UNCHANGED tempDirs
    /\ UNCHANGED <<now, backend, catalogVars, storage, partial, cancelled>>

\* does s.storage.Upload look at ctx?  LocalStorage.Upload never does.
UploadObservesCtx(b) == b # "local"

\* s.storage.Upload(ctx, backupPath, generateRemotePath(policy, backupName))
StepUpload(fault) ==
    /\ run.pc = "upload"
    /\ LET r == Upload(backend, [storage |-> storage, partial |-> partial],
                       RemotePath(run.policy, run.stamp),
                       IF cancelled /\ UploadObservesCtx(backend) /\ fault = "none"
                       THEN "early" ELSE fault)
       IN /\ storage' = r.storage
          /\ partial' = r.partial
          /\ IF r.ok THEN Advance("retain") /\ UNCHANGED tempDirs
                     ELSE ReturnErr("upload")
    /\ UNCHANGED <<now, backend, catalogVars, cancelled>>

RetentionErrorPropagates(r) == r.err \/ r.failed # {}

\* performBackup logs an error of cleanupOldBackups and goes on
retentionErrorIsFatal(r) == FALSE

\* cleanupOldBackups(ctx, policy), return result; ExecuteBackup completes the job
StepRetain ==
    /\ run.pc = "retain"
    /\ \E r \in cleanupOldBackups(backend, [storage |-> storage, cat |-> Catalog, failed |-> {}],
                                  run.policy, run.retention, cancelled) :
          /\ storage' = r.storage
          /\ partial' = partial \cap r.storage
          /\ policies' = r.cat.policies
          /\ jobs' = r.cat.jobs
          /\ results' = r.cat.results
          /\ files' = r.cat.files
          /\ memJobs' = [memJobs EXCEPT
                ![run.job] = IF retentionErrorIsFatal(r)
                             THEN failJob(@, ErrorText("retain")) ELSE completeJob(@)]
          /\ tempDirs' = performBackupExit(tempDirs, run.job, "retain")
          /\ run' = IdleRun
          /\ ret' = [Ret("ExecuteBackup", ~retentionErrorIsFatal(r)) EXCEPT
                        !.job = run.job, !.policy = run.policy, !.phase = "retain",
                        !.result = IF retentionErrorIsFatal(r)
                                   THEN NoPath ELSE RemotePath(run.policy, run.stamp),
                        !.cancelAt = run.cancelAt, !.err = r.err, !.fault = r.fault,
                        !.todo = r.todo, !.failed = r.failed]
    /\ UNCHANGED <<now, backend, cancelled>>

\* runCreate's signal handler: cancel()
Cancel ==
    /\ ~cancelled
    /\ cancelled' = TRUE
    /\ run' = [run EXCEPT !.cancelAt = run.pc]
    /\ ret' = Ret("none", TRUE)
    /\ UNCHANGED <<now, backend, catalogVars, storage, partial, memJobs, tempDirs>>

PolicyInputs == {PolicyRow(k, a, e) : k \in {0, 2}, a \in BOOLEAN, e \in BOOLEAN}

\* the caller passes the same policy in every CreateBackupJob
SamePolicy(pid, row) == pid \in DOMAIN policies => policies[pid] = row

Init == InitEmpty

\* runCreate executes the job it created before the next one is created
NonePending == \A j \in DOMAIN memJobs : memJobs[j].status # JobStatusPending

\* the caller holds the job it created last, and may execute it again
LatestJob == Cardinality(DOMAIN memJobs)

Next ==
    \/ run.pc = "idle" /\ Tick
    \/ \E row \in PolicyInputs, fail \in BOOLEAN :
          NonePending /\ SamePolicy("p1", row) /\ CreateBackupJob("p1", row, fail)
    \/ \E fail \in BOOLEAN : BeginExecute(LatestJob, fail)
    \/ \E fail \in BOOLEAN : StepMkTemp(fail)
    \/ \E fail \in BOOLEAN, n \in 0..MaxSourceFiles : StepScan(fail, n)
    \/ \E fail \in BOOLEAN : StepCopy(fail)
    \/ \E fail \in BOOLEAN : StepArchive(fail)
    \/ \E fail \in BOOLEAN : StepEncrypt(fail)
    \/ \E fail \in BOOLEAN : StepChecksum(fail)
    \/ \E fault \in UploadFaults : StepUpload(fault)
    \/ StepRetain
    \/ Cancel

Spec == Init /\ [][Next]_vars

\* the pipeline without faults: no call fails for a reason outside the program
\* and nothing cancels the context
PipelineStep ==
    \/ StepMkTemp(FALSE)
    \/ \E n \in 0..MaxSourceFiles : StepScan(FALSE, n)
    \/ StepCopy(FALSE)
    \/ StepArchive(FALSE)
    \/ StepEncrypt(FALSE)
    \/ StepChecksum(FALSE)
    \/ StepUpload("none")
    \/ StepRetain

NextNoFault ==
    \/ run.pc = "idle" /\ Tick
    \/ \E row \in PolicyInputs :
          NonePending /\ SamePolicy("p1", row) /\ CreateBackupJob("p1", row, FALSE)
    \/ BeginExecute(LatestJob, FALSE)
    \/ PipelineStep

\* performBackup is sequential code: a run that began takes its next step
SpecNoFault == Init /\ [][NextNoFault]_vars /\ WF_vars(PipelineStep)

\* cleanupTempFiles: every directory matching backup-* under os.TempDir() is
\* removed with os.RemoveAll (the entries of tempDirs are all directories);
\* whether a run still works in one of them is not looked at
cleanupTempFiles(dirs) == Drop(dirs, DOMAIN dirs)

CleanupTempFiles ==
    /\ tempDirs' = cleanupTempFiles(tempDirs)
    /\ ret' = Ret("cleanupTempFiles", TRUE)
    /\ UNCHANGED <<now, backend, catalogVars, storage, partial, memJobs, run, cancelled>>

\* the run is between os.MkdirTemp and its return
InProgress == run.pc \in Steps1to6 \cup {"retain"}

HasTempDir == run.pc \in {"idle", "mktemp", "retain"} \/ run.job \in DOMAIN tempDirs

\* the next step of a run whose working directory is gone: scanDirectory reads
\* the source alone; copyFiles creates the directories of each file it copies
\* (os.MkdirAll) and so brings the directory back when there is a file;
\* createArchive (os.Create), encryptFile, calculateChecksum and Upload
\* (os.Open) fail on the missing path
StepWithoutTempDir(n) ==
    /\ run.pc \in Steps1to6
    /\ run.job \notin DOMAIN tempDirs
    /\ CASE run.pc = "scan" ->
              /\ run' = [run EXCEPT !.pc = "copy", !.stamp = now, !.path = "copy"]
              /\ ret' = Ret("none", TRUE)
              /\ UNCHANGED <<memJobs, tempDirs>>
         [] run.pc = "copy" ->
              /\ Advance("archive")
              /\ tempDirs' = IF n > 0 THEN Put(tempDirs, run.job, {"copy"}) ELSE tempDirs
         [] run.pc = "archive" ->
              IF run.archive THEN ReturnErr("archive")
              ELSE Advance("encrypt") /\ UNCHANGED tempDirs
         [] run.pc = "encrypt" ->
              IF run.encrypt THEN ReturnErr("encrypt")
              ELSE Advance("checksum") /\ UNCHANGED tempDirs
         [] run.pc = "checksum" -> ReturnErr("checksum")
         [] run.pc = "upload" -> ReturnErr("upload")
    /\ UNCHANGED <<now, backend, catalogVars, storage, partial, cancelled>>

\* runs without faults, with cleanupTempFiles called at any moment
NextTemp ==
    \/ run.pc = "idle" /\ Tick
    \/ \E row \in PolicyInputs :
          NonePending /\ SamePolicy("p1", row) /\ CreateBackupJob("p1", row, FALSE)
    \/ BeginExecute(LatestJob, FALSE)
    \/ HasTempDir /\ PipelineStep
    \/ \E n \in 0..MaxSourceFiles : StepWithoutTempDir(n)
    \/ CleanupTempFiles

SpecTemp == Init /\ [][NextTemp]_vars

\* ------------------------------------------------------ retention properties
VerifiedOf(pid) ==
    {j \in JobsOfPolicy(jobs, pid) :
        IsSuccessful(jobs[j]) /\ StorageExists(storage, jobs[j].backup_path)}

DistinctCreated(S) == \A i, j \in S : i # j => jobs[i].created_at # jobs[j].created_at

\* the k rows of S with the latest created_at
Newest(S, k) == {j \in S : Cardinality({i \in S : jobs[i].created_at > jobs[j].created_at}) < k}

CleanRetentionStep(pid) ==
    /\ ret'.op = "cleanupOldBackups"
    /\ ret'.policy = pid
    /\ ret'.ok /\ ~ret'.fault /\ ret'.failed = {}
    /\ pid \in DOMAIN policies
    /\ policies[pid].retention_count >= 1
    /\ Cardinality(VerifiedOf(pid)) > policies[pid].retention_count
    /\ DistinctCreated(VerifiedOf(pid))

\* C1: count-based retention.  When cleanupOldBackups runs without a storage or
\* catalog failure for a policy with retention K >= 1 and N > K verified
\* completed backups of pairwise distinct creation times, exactly the N-K
\* oldest are deleted and the K newest are still completed in the catalog and
\* present in storage.
C1_RetentionCount ==
    [][\A pid \in PolicyIds :
         CleanRetentionStep(pid) =>
           LET V == VerifiedOf(pid)
               keep == Newest(V, policies[pid].retention_count)
           IN /\ \A j \in V \ keep :
                    /\ jobs'[j].status = JobStatusDeleted
                    /\ ~StorageExists(storage', jobs[j].backup_path)
              /\ \A j \in keep :
                    /\ jobs'[j].status = JobStatusCompleted
                    /\ StorageExists(storage', jobs'[j].backup_path)
              /\ \A j \in DOMAIN jobs \ (V \ keep) : jobs'[j] = jobs[j]]_vars

\* C10: retention deletes each backup transactionally.  After cleanupOldBackups
\* has attempted deleteBackup on a row, either the artifact is gone, the job
\* row is no longer a completed backup (marked deleted) and its result and
\* file rows are gone, or the artifact is still in storage and the rows are
\* unchanged.  (Stated for the rows that do not share their artifact path with
\* another row.)
C10_DeleteBackupAllOrNothing ==
    [][ret'.op = "cleanupOldBackups" =>
         \A i \in DOMAIN ret'.todo :
            LET j == ret'.todo[i] IN
               \/ \E k \in DOMAIN jobs \ {j} : jobs[k].backup_path = jobs[j].backup_path
               \/ /\ ~StorageExists(storage', jobs[j].backup_path)
                  /\ jobs'[j].status = JobStatusDeleted
                  /\ j \notin results'
                  /\ \A f \in DOMAIN files' : files'[f] # j
               \/ /\ StorageExists(storage', jobs[j].backup_path)
                  /\ jobs'[j] = jobs[j]
                  /\ (j \in results') = (j \in results)
                  /\ \A f \in DOMAIN files : files[f] = j =>
                         f \in DOMAIN files' /\ files'[f] = j]_vars

\* ------------------------------------------------------- catalog properties
\* C9: deletePolicy is atomic.  A call that fails leaves the four tables as they
\* were; a call that succeeds leaves no policy row and no job, result or file
\* row of the policy's jobs.
C9_DeletePolicyAtomic ==
    [][ret'.op = "deletePolicy" =>
         LET pid == ret'.policy
             J == JobsOfPolicy(jobs, pid)
         IN IF ret'.ok
            THEN /\ pid \notin DOMAIN policies'
                 /\ JobsOfPolicy(jobs', pid) = {}
                 /\ results' \cap J = {}
                 /\ \A f \in DOMAIN files' : files'[f] \notin J
            ELSE <<policies', jobs', results', files'>> = <<policies, jobs, results, files>>]_vars

\* a failed deletePolicy of a policy that has a job with a result and a file row
C9_Witness ==
    /\ ret.op = "deletePolicy" /\ ~ret.ok
    /\ ret.policy \in DOMAIN policies
    /\ \E j \in JobsOfPolicy(jobs, ret.policy) :
          j \in results /\ \E f \in DOMAIN files : files[f] = j

\* ------------------------------------------------------ pipeline properties
Artifacts(pid) == {p \in storage \ partial : p[1] = pid}

\* C2: end-to-end retention.  After three jobs of a policy with archive on,
\* encryption off and retention 2 have run successfully one after the other,
\* exactly two artifacts of the policy remain in storage and one was deleted
\* (so no more than two artifacts remain, however the runs were named).
C2_ThreeRunsKeepTwo ==
    ( /\ ret.op = "ExecuteBackup" /\ ret.ok /\ ret.job = 3
      /\ "p1" \in DOMAIN policies
      /\ policies["p1"] = PolicyRow(2, TRUE, FALSE)
      /\ \A j \in 1..3 : memJobs[j].status = JobStatusCompleted /\ memJobs[j].error = "" )
    => Cardinality(Artifacts("p1")) <= 2

\* C3: after a successful ExecuteBackup the catalog holds a completed job row
\* and a result row for the job.
C3_RowsPersisted ==
    (ret.op = "ExecuteBackup" /\ ret.ok)
    => /\ ret.job \in DOMAIN jobs
       /\ jobs[ret.job].status = JobStatusCompleted
       /\ ret.job \in results

\* C4: a job is created pending and its status only moves pending -> running
\* -> {completed | failed}; a terminal status is never left.
C4_StatusMachine ==
    [][\A j \in DOMAIN memJobs' :
          IF j \in DOMAIN memJobs
          THEN LET a == memJobs[j].status
                   b == memJobs'[j].status
               IN \/ a = b
                  \/ a = JobStatusPending /\ b = JobStatusRunning
                  \/ a = JobStatusRunning /\ b \in {JobStatusCompleted, JobStatusFailed}
          ELSE memJobs'[j].status = JobStatusPending]_vars

C6_RetentionFailureSwallowed ==
    [][(run.pc = "retain" /\ ret'.op = "ExecuteBackup" /\ (ret'.err \/ ret'.failed # {})) =>
          /\ ret'.ok
          /\ ret'.result = RemotePath(run.policy, run.stamp)
          /\ memJobs'[run.job].status = JobStatusCompleted]_vars

\* ExecuteBackup returned a result although cleanupOldBackups returned an error
C6_Witness ==
    /\ ret.op = "ExecuteBackup" /\ ret.ok /\ ret.err
    /\ memJobs[ret.job].status = JobStatusCompleted

\* C7: whenever no run is in progress, no working directory exists: every
\* return of performBackup has removed the one it created, with its contents.
C7_TempDirRemoved == run.pc = "idle" => DOMAIN tempDirs = {}

\* a run cancelled before encryption returned, after it had written the archive
C7_Witness ==
    /\ run.pc = "idle"
    /\ ret.op = "ExecuteBackup" /\ ~ret.ok
    /\ ret.phase = "encrypt" /\ ret.cancelAt = "encrypt"

\* C8: a run whose context was cancelled before one of the steps scan, copy,
\* archive, encrypt, checksum, upload began never ends completed.
C8_CancelNeverCompletes ==
    (ret.op = "ExecuteBackup" /\ ret.cancelAt \in Steps1to6)
    => ~ret.ok /\ memJobs[ret.job].status # JobStatusCompleted

\* ------------------------------------------ properties of the retention operations
RetentionOps == {"cleanupOldBackups", "applyAgeBasedRetention",
                 "cleanupOrphanedBackups", "cleanupFailedBackups"}

CleanRun(r) == r.ok /\ ~r.err /\ ~r.fault

\* a run of a retention operation right after a run of the same operation with
\* the same arguments, neither of them hit by a failing query or a failing
\* Exists, Delete or transaction step
SecondRun ==
    /\ ret.op \in RetentionOps
    /\ ret'.op = ret.op
    /\ ret'.policy = ret.policy
    /\ ret'.job = ret.job
    /\ CleanRun(ret)
    /\ CleanRun(ret')

\* C11: every retention operation (cleanupOldBackups, applyAgeBasedRetention,
\* cleanupOrphanedBackups, cleanupFailedBackups) is idempotent: a second run
\* right after the first, with no new backup in between, leaves the catalog
\* and the storage exactly as the first run left them.
C11_RetentionIdempotent ==
    [][SecondRun => (storage' = storage /\ partial' = partial /\ policies' = policies
                     /\ jobs' = jobs /\ results' = results /\ files' = files)]_vars

\* a clean second run of cleanupOldBackups after a first run that deleted a backup
C11_Witness ==
    /\ ret.op = "cleanupOldBackups"
    /\ ret.phase = "again"
    /\ ret.job >= 1
    /\ CleanRun(ret)
    /\ \E j \in DOMAIN jobs : jobs[j].status = JobStatusDeleted

NothingChanges ==
    /\ storage' = storage /\ partial' = partial /\ policies' = policies
    /\ jobs' = jobs /\ results' = results /\ files' = files

\* C20: count-based retention is a no-op when the retention count is zero or
\* negative, or when the number of verified backups does not exceed it:
\* cleanupOldBackups returns success and leaves every artifact and every
\* catalog row unchanged.
C20_RetentionNoOp ==
    [][(/\ ret'.op = "cleanupOldBackups"
        /\ \/ ret'.job <= 0
           \/ Cardinality(VerifiedOf(ret'.policy)) <= ret'.job /\ ~ret'.err)
       => (ret'.ok /\ NothingChanges)]_vars

\* cleanupOldBackups returned for a retention count of zero while two verified
\* backups of the policy exist
C20_Witness ==
    /\ ret.op = "cleanupOldBackups"
    /\ ret.job = 0
    /\ ret.phase = "first"
    /\ ret.ok
    /\ Cardinality(VerifiedOf(ret.policy)) >= 2

OldBackups(pid, maxAge) == {j \in VerifiedOf(pid) : IsOlderThan(jobs[j], now, maxAge)}

YoungBackups(pid, maxAge) ==
    {j \in JobsOfPolicy(jobs, pid) : jobs[j].created_at > now - maxAge}

\* C13: age-based retention.  When applyAgeBasedRetention runs for maxAge > 0
\* without a failing query, Exists, Delete or transaction step, every verified
\* completed backup of the policy created more than maxAge ago is deleted
\* (artifact gone, row no longer completed) and every backup created less than
\* maxAge ago is retained (row unchanged, artifact still stored).
C13_AgeBasedRetention ==
    [][(/\ ret'.op = "applyAgeBasedRetention"
        /\ ret'.job > 0
        /\ CleanRun(ret'))
       => (/\ \A j \in OldBackups(ret'.policy, ret'.job) :
                /\ jobs'[j].status # JobStatusCompleted
                /\ ~StorageExists(storage', jobs[j].backup_path)
           /\ \A j \in YoungBackups(ret'.policy, ret'.job) :
                /\ jobs'[j] = jobs[j]
                /\ StorageExists(storage, jobs[j].backup_path)
                      => StorageExists(storage', jobs[j].backup_path))]_vars

\* ------------------------------------------ properties of the storage layer
Stored(store, part, i) ==
    StorageExists(store, ObjectOf(i, ArtifactPath)) /\ ObjectOf(i, ArtifactPath) \notin part

\* the members a Delete call addresses
Addressed == IF ret'.op = "Delete" THEN {ret'.job} ELSE Members

\* C12: Delete is idempotent for every backend: Delete of a path whose object
\* is absent returns no error and leaves the storage unchanged.
C12_DeleteAbsentIsNoError ==
    [][(/\ ret'.op \in {"Delete", "MultiStorage.Delete"}
        /\ ~ret'.fault
        /\ \A i \in Addressed : ~StorageExists(storage, ObjectOf(i, ArtifactPath)))
       => (ret'.ok /\ storage' = storage)]_vars

C15_MultiDownload ==
    [][ret'.op = "MultiStorage.Download"
       => (/\ \A n \in 1..Len(ret'.todo) : ret'.todo[n] = n
           /\ ret'.ok => /\ ret'.job \in Members
                         /\ Len(ret'.todo) = ret'.job
                         /\ StorageExists(storage, ObjectOf(ret'.job, ArtifactPath))
                         /\ ~ret'.fault =>
                              \A i \in 1..(ret'.job - 1) :
                                 ~StorageExists(storage, ObjectOf(i, ArtifactPath))
           /\ ~ret'.ok => /\ ret'.job = 0
                          /\ Len(ret'.todo) = Len(backend))]_vars

\* ------------------------------------------------- properties of archives
Extracting == run.pc \in {"extracting", "extracted", "failed"}

\* loc is destRoot or below it
Inside(dest, loc) == IsPrefixOf(Resolve(dest), loc)

\* the destination of entry e is not a descendant of destRoot
Escapes(dest, e) ==
    LET loc == Resolve(Join(dest, e.name)) IN
    ~Inside(dest, loc) \/ loc = Resolve(dest)

Reproduced(dest, t, fs) ==
    LET root == Resolve(dest) IN
    /\ \A n \in DOMAIN t : root \o n \in DOMAIN fs /\ fs[root \o n] = t[n]
    /\ \A loc \in DOMAIN fs : loc = root \/ \E n \in DOMAIN t : loc = root \o n

\* C19: archive round trip.  extractArchive of the output of createArchive
\* succeeds and reproduces the tree below destRoot: the same relative paths,
\* starting with the base name of the source directory, directories as
\* directories and files with the same bytes (into an empty destination).
C19_ArchiveRoundTrip ==
    (run.pc \in {"extracted", "failed"} /\ run.origin = "createArchive" /\ run.before = <<>>)
       => (run.pc = "extracted" /\ Reproduced(run.dest, run.tree, run.fs))

\* ------------------------------------------------ properties of encryption
DecryptEnded == run.pc \in {"decrypted", "authentication failed"}

\* C17: encryption round trip.  decryptFile of the output of encryptFile with
\* the same passphrase succeeds and writes the original bytes, for the empty
\* input, inputs of exactly one chunk and inputs of several chunks with a
\* shorter last one.
C17_EncryptionRoundTrip ==
    (DecryptEnded /\ run.with = run.password /\ run.input = run.enc)
       => (run.pc = "decrypted" /\ run.out = run.plain)

\* an input of two full chunks and a shorter third came back
C17_Witness ==
    /\ run.pc = "decrypted"
    /\ run.with = run.password
    /\ run.input = run.enc
    /\ Len(run.plain) = 2 * ChunkSize + 1
    /\ run.chunks = 3
    /\ run.out = run.plain

\* C18: decryptFile with a passphrase other than the one used by encryptFile
\* ends with an authentication error for every plaintext, the empty one
\* included; it never returns success.
C18_WrongPassphraseFails ==
    (DecryptEnded /\ run.with # run.password /\ run.input = run.enc)
       => run.pc = "authentication failed"

\* ---------------------------------------------- deletion failures in retention
\* row j was deleted: its artifact is gone and its row is marked deleted
Deleted(j) ==
    /\ jobs'[j].status = JobStatusDeleted
    /\ ~StorageExists(storage', jobs[j].backup_path)

\* C21: in count-based and age-based retention a failing deleteBackup is logged
\* and skipped: every other backup selected in the same run is still deleted
\* and the operation returns success.
C21_DeletionFailureSkipped ==
    [][(/\ ret'.op \in {"cleanupOldBackups", "applyAgeBasedRetention"}
        /\ ~ret'.err)
       => (/\ ret'.ok
           /\ ret'.failed \subseteq Range(ret'.todo)
           /\ \A j \in Range(ret'.todo) \ ret'.failed : Deleted(j))]_vars

\* age-based retention returned success after the deletion of its first
\* backup failed and the one after it was deleted
C21_Witness ==
    /\ ret.op = "applyAgeBasedRetention"
    /\ ret.ok
    /\ Len(ret.todo) >= 2
    /\ ret.todo[1] \in ret.failed
    /\ ret.todo[2] \notin ret.failed
    /\ jobs[ret.todo[2]].status = JobStatusDeleted

\* entry i is the last entry of the archive written to its destination
LastFor(i) ==
    \A k \in (i + 1)..Len(run.archive) :
       Resolve(Join(run.dest, run.archive[k].name)) # Resolve(Join(run.dest, run.archive[i].name))

\* C22: extractArchive creates regular files truncating: after a successful
\* extraction every extracted regular file holds exactly the content of its
\* entry, also where a longer file existed before.
C22_ExtractTruncates ==
    run.pc = "extracted" =>
       \A i \in 1..Len(run.archive) :
          (run.archive[i].type = TypeReg /\ LastFor(i)) =>
             LET loc == Resolve(Join(run.dest, run.archive[i].name)) IN
             IsFile(run.fs, loc) /\ run.fs[loc].data = run.archive[i].data

\* --------------------------------------- properties of incremental archives
InArchive(n) ==
    \E i \in 1..Len(run.archive) : run.archive[i].name = Path(FALSE, Rel(TempDir, TempDir \o n))

\* C23: createIncrementalArchive includes an entry only if its modification
\* time is strictly after the baseline archive's: entries modified at or before
\* it are skipped; with no baseline, or an unreadable one, every entry is
\* included.
C23_IncrementalAfterBaseline ==
    (run.pc = "archived" /\ "baseline" \in DOMAIN run) =>
       \A n \in DOMAIN run.tree :
          InArchive(n) <=> (\/ ~run.baseline.given
                            \/ ~run.baseline.readable
                            \/ run.mtimes[n] > run.baseline.mtime)

\* the number a nonce is, its first byte the most significant
RECURSIVE NonceValue(_)
NonceValue(nonce) ==
    IF nonce = <<>> THEN 0
    ELSE NonceValue(SubSeq(nonce, 1, Len(nonce) - 1)) * ByteValues + nonce[Len(nonce)]

\* C24: nonce schedule.  Chunk i (from 0) is sealed with the header nonce plus
\* i, a big-endian increment with carry that wraps to all zeros; decryptFile
\* opens chunk i with the nonce it was sealed with; no two chunks of one
\* artifact share a nonce while there are fewer chunks than nonce values.
C24_NonceSchedule ==
    (run.pc # "idle" /\ "sealed" \in DOMAIN run) =>
       /\ \A i \in 1..Len(run.sealed) :
             NonceValue(run.sealed[i]) = (NonceValue(run.enc[1].nonce) + i - 1) % NonceSpace
       /\ Len(run.sealed) < NonceSpace =>
             \A i, k \in 1..Len(run.sealed) : i # k => run.sealed[i] # run.sealed[k]
       /\ "opened" \in DOMAIN run =>
             \A i \in 1..Len(run.opened) : run.opened[i] = run.sealed[i]

\* three chunks sealed from the header nonce of all-highest bytes, which wraps
\* to all zeros for the second chunk, and opened again
C24_Witness ==
    /\ run.pc = "decrypted"
    /\ run.input = run.enc
    /\ "opened" \in DOMAIN run
    /\ Len(run.opened) = 3
    /\ \A i \in 1..NonceSize : run.sealed[1][i] = ByteValues - 1
    /\ \A i \in 1..NonceSize : run.sealed[2][i] = 0

\* C25: an authentication failure on a chunk after the first fails the whole
\* decryption and is never partially applied: the output file does not hold
\* the plaintext of the chunks opened before it.
C25_NoPartialPlaintext ==
    (run.pc = "authentication failed" /\ run.chunks >= 1) => run.out = <<>>

\* ------------------------------------------- properties of the compression ratio
\* C26: with archiving enabled the recorded compression ratio is the bytes of
\* the copied tree over the size of the archive file, and CompressedSize is the
\* size of the archive file.
C26_CompressionRatio ==
    run.pc = "measured" =>
       /\ run.CompressionRatio.num * run.work.archive
             = SumSizes(run.work.copy, DOMAIN run.work.copy) * run.CompressionRatio.den
       /\ run.CompressedSize = run.work.archive

\* ------------------------------------------------ properties of a run without faults
\* C27: for a validated policy, a readable source and no fault, ExecuteBackup
\* ends with the job completed and the artifact uploaded, for every combination
\* of the archive and encryption flags, archiving disabled included.
C27_RunCompletes ==
    \A j \in JobIds :
       (run.pc = "copy" /\ run.job = j /\ "source" \in tempDirs[j])
          ~> (/\ run.pc = "idle"
              /\ ret.op = "ExecuteBackup" /\ ret.job = j /\ ret.ok
              /\ memJobs[j].status = JobStatusCompleted
              /\ StorageExists(storage, ret.result))

\* ------------------------------------------------ properties of artifact names
\* the upload step of a run returned success
UploadDone == run.pc = "upload" /\ run'.pc = "retain"

\* C28: distinct successful runs of one policy upload to distinct paths, so no
\* upload overwrites the artifact an earlier run stored.
C28_DistinctArtifactPaths ==
    [][UploadDone =>
         ~(/\ StorageExists(storage, RemotePath(run.policy, run.stamp))
           /\ RemotePath(run.policy, run.stamp) \notin partial)]_vars

\* ------------------------------------------------ properties of concurrent cleanups
\* no two rows of the policy name the same artifact
DistinctArtifacts(pid) ==
    \A j, k \in JobsOfPolicy(jobs, pid) :
       j # k => jobs[j].backup_path # jobs[k].backup_path

\* C29: under any interleaving of two count-based cleanups of one policy, also
\* when backups have equal creation times, the verified backups that remain
\* never drop below min(K, N), N being the number verified before the cleanups.
C29_ConcurrentCleanupKeepsK ==
    (~NoneStarted /\ DistinctArtifacts("p1"))
       => Cardinality(VerifiedNow("p1")) >= Min(policies["p1"].retention_count, run.verified)

\* ------------------------------------------------ properties of cleanupTempFiles
\* C30: cleanupTempFiles running while a pipeline run is in progress does not
\* remove that run's working directory.
C30_CleanupSparesRunningDir ==
    [][(ret'.op = "cleanupTempFiles" /\ InProgress /\ run.job \in DOMAIN tempDirs)
          => run.job \in DOMAIN tempDirs']_vars

====
